---- MODULE Spec2Model ----
(***************************************************************************)
(* The feedback board of app1.py: a JSON collection kept as one document   *)
(* in a versioned content store, read and written by independent sessions  *)
(* through load_json_list and optimistic_save.                             *)
(*                                                                         *)
(* One collection (feedback.json) is modelled; tickets.json goes through   *)
(* the same load_json_list / optimistic_save code with the same id rule.   *)
(* Timestamps are whole seconds of one server clock: utc_now_str formats   *)
(* the clock to second precision and parse_utc reads that text back, so a  *)
(* timestamp is represented by its number of seconds.                      *)
(***************************************************************************)
EXTENDS Integers, Sequences, FiniteSets, TLC

\* ---------------------------------------------------------------- bounds
MaxPuts == 2     \* successful writes the store accepts in one behaviour
MaxTime == 1     \* last second the clock reaches

Sessions == {"A", "B"}

\* ------------------------------------------------------------- constants
NoSha == 0       \* sha None: the document does not exist yet (404)
NoTime == -1     \* deleted_at None
Counters == {"like", "helpful", "agree"}
\* what each session types into the forms
FormTexts == [A |-> {" ", "hi"}, B |-> {"a@b.co"}]
ReplyText == [A |-> "r1", B |-> "r2"]
EditForm == [A |-> [message |-> " e1 ", labels |-> <<"ui">>, priority |-> "High"],
             B |-> [message |-> "e2", labels |-> <<>>, priority |-> "Low"]]

VARIABLES
    now,          \* the server clock, in seconds
    doc,          \* the stored document: the list of records
    doc_sha,      \* the stored document's version token
    nputs,        \* how many writes the store has accepted
    pc,           \* pc[s]: where session s is in its script run
    items,        \* items[s]: the working list of session s
    old_sha,      \* old_sha[s]: the token session s loaded
    merged_list,  \* merged_list[s]: the list built by the merge
    latest_sha,   \* latest_sha[s]: the token of the re-read
    ok,           \* ok[s]: what optimistic_save returned
    g,            \* g[s]: history of the current call (base, op, counts)
    lastWrite,    \* history: the write that produced the stored document
    retired,      \* history: ids of records that have left the store
    call          \* one call of a query function: its arguments and result

vars == <<now, doc, doc_sha, nputs, pc, items, old_sha, merged_list, latest_sha,
          ok, g, lastWrite, retired, call>>

\* ------------------------------------------------------------- utilities
utc_now_str == now

parse_utc(s) == s

\* dict.get(key, default)
Get(it, f, default) == IF f \in DOMAIN it THEN it[f] ELSE default

\* it[key] = value
SetField(it, f, v) == [x \in (DOMAIN it) \cup {f} |-> IF x = f THEN v ELSE it[x]]

\* a default-filling step that overwrites the field
SetAlways(it, f, default) == SetField(it, f, default)

\* dict.setdefault(key, default)
SetDefault(it, f, default) == IF f \in DOMAIN it THEN it ELSE SetField(it, f, default)

Ids(list) == {list[i].id : i \in 1..Len(list)}

\* text.strip()
Strip(text) == IF text = " " THEN "" ELSE IF text = " e1 " THEN "e1" ELSE text

mask_pii(text) == IF text = "a@b.co" THEN "[email masked]" ELSE text

ZeroReactions == [like |-> 0, helpful |-> 0, agree |-> 0]

\* load_json_list: the defaults filled into every loaded record
Normalize(it) ==
    LET r1 == SetDefault(it, "replies", <<>>)
        r2 == SetDefault(r1, "labels", <<>>)
        r3 == SetDefault(r2, "priority", "Medium")
        r4 == SetDefault(r3, "assigned_to", "")
        r5 == SetDefault(r4, "admin_notes", "")
        r6 == SetDefault(r5, "reactions", ZeroReactions)
        r7 == SetDefault(r6, "deleted_at", NoTime)
        r8 == SetDefault(r7, "history", <<>>)
        r9 == SetDefault(r8, "created_at", utc_now_str)
    IN  SetDefault(r9, "updated_at", r9["created_at"])

\* a document content that is not JSON
Garbled == <<[garbled |-> TRUE]>>

\* a decoder that hands the content on as it is
LoadsUnchecked(content) == content

\* lines 56-59 and 81-84: json.loads, [] when it raises
json_loads(content) == IF content = Garbled THEN <<>> ELSE content

load_json_list(content) ==
    LET its == json_loads(content)
    IN  [i \in 1..Len(its) |-> Normalize(its[i])]

\* ------------------------------------------------------------ the store
\* update_file_content as the store answers it when the request gets through
StoreStatus(sha_sent, cur_sha) ==
    IF cur_sha = NoSha
    THEN IF sha_sent = NoSha THEN 201 ELSE 409
    ELSE IF sha_sent = NoSha THEN 422
         ELSE IF sha_sent = cur_sha THEN 200 ELSE 409

FailureStatus == 500

IsSuccess(status) == status \in {200, 201}

\* a save that retries after any failed write
AnyFailureIsConflict(status) == status \notin {200, 201}

IsConflict(status) == status \in {409, 422}

\* ------------------------------------------------------- optimistic_save
\* position of the record with id k in the ordered dict d, 0 when absent
IndexOf(d, k) ==
    IF \E i \in 1..Len(d) : d[i].id = k
    THEN CHOOSE i \in 1..Len(d) : d[i].id = k
    ELSE 0

\* by_id[k] = v
DictPut(d, k, v) ==
    IF IndexOf(d, k) = 0 THEN Append(d, v) ELSE [d EXCEPT ![IndexOf(d, k)] = v]

RECURSIVE ById(_, _)
\* by_id = {x.get(id_key): x for x in latest if x.get(id_key) is not None}
ById(latest, d) ==
    IF latest = <<>> THEN d
    ELSE LET x == Head(latest)
         IN  IF "id" \in DOMAIN x
             THEN ById(Tail(latest), DictPut(d, x.id, x))
             ELSE ById(Tail(latest), d)

\* a merge whose ties go to the working side
TieToWorking(a, b, ta, tb) == IF ta > tb THEN a ELSE b

\* a merge that keeps the side written earlier
PickOlder(a, b, ta, tb) == IF ta <= tb THEN a ELSE b

\* which of the two sides is the base of the merged record
MergeBase(a, b, ta, tb) == IF ta >= tb THEN a ELSE b

\* a merge that forgets the working side's replies
KeepAuthoritativeReplies(a, b) == Get(a, "replies", <<>>)

MergeReplies(a, b) == Get(a, "replies", <<>>) \o Get(b, "replies", <<>>)

\* a merge that keeps the larger of the two counters
LargerReactions(a, b) ==
    LET ra == Get(a, "reactions", [x \in {} |-> 0])
        rb == Get(b, "reactions", [x \in {} |-> 0])
        larger(m, n) == IF m >= n THEN m ELSE n
    IN  [like |-> larger(Get(ra, "like", 0), Get(rb, "like", 0)),
         helpful |-> larger(Get(ra, "helpful", 0), Get(rb, "helpful", 0)),
         agree |-> larger(Get(ra, "agree", 0), Get(rb, "agree", 0))]

MergeReactions(a, b) ==
    LET ra == Get(a, "reactions", [x \in {} |-> 0])
        rb == Get(b, "reactions", [x \in {} |-> 0])
    IN  [like |-> Get(ra, "like", 0) + Get(rb, "like", 0),
         helpful |-> Get(ra, "helpful", 0) + Get(rb, "helpful", 0),
         agree |-> Get(ra, "agree", 0) + Get(rb, "agree", 0)]

\* lines 93-105: a is the authoritative record, b the working one
MergeRecord(a, b) ==
    LET ta == parse_utc(Get(a, "updated_at", Get(a, "created_at", utc_now_str)))
        tb == parse_utc(Get(b, "updated_at", Get(b, "created_at", utc_now_str)))
        merged == MergeBase(a, b, ta, tb)
    IN  SetField(SetField(merged, "replies", MergeReplies(a, b)),
                 "reactions", MergeReactions(a, b))

RECURSIVE MergeInto(_, _)
\* for it in items: ...
MergeInto(by_id, its) ==
    IF its = <<>> THEN by_id
    ELSE LET it == Head(its)
         IN  IF "id" \notin DOMAIN it
             THEN MergeInto(by_id, Tail(its))
             ELSE IF IndexOf(by_id, it.id) = 0
                  THEN MergeInto(DictPut(by_id, it.id, it), Tail(its))
                  ELSE MergeInto(DictPut(by_id, it.id,
                                   MergeRecord(by_id[IndexOf(by_id, it.id)], it)),
                                 Tail(its))

\* a merge that leaves out the working records the store does not hold
MergeKnown(latest, its) ==
    MergeInto(ById(latest, <<>>), SelectSeq(its, LAMBDA it : IndexOf(latest, it.id) # 0))

\* merged_list = list(by_id.values())
Merge(latest, its) == MergeInto(ById(latest, <<>>), its)

\* ---------------------------------------------------------- query engine
\* Texts of the query engine are sequences of characters.
Lower(text) ==
    [i \in 1..Len(text) |->
        IF text[i] = "H" THEN "h" ELSE IF text[i] = "I" THEN "i" ELSE text[i]]

RECURSIVE LStrip(_)
LStrip(text) ==
    IF text # <<>> /\ Head(text) = " " THEN LStrip(Tail(text)) ELSE text

RECURSIVE RStrip(_)
RStrip(text) ==
    IF text # <<>> /\ text[Len(text)] = " "
    THEN RStrip(SubSeq(text, 1, Len(text) - 1))
    ELSE text

\* str.strip()
StripText(text) == RStrip(LStrip(text))

\* kw in h
Contains(kw, h) ==
    \E i \in 0..(Len(h) - Len(kw)) : SubSeq(h, i + 1, i + Len(kw)) = kw

\* isinstance(v, list): labels is the one list among the searched fields
IsListField(f) == f = "labels"

RECURSIVE Flatten(_)
Flatten(qq) == IF qq = <<>> THEN <<>> ELSE Head(qq) \o Flatten(Tail(qq))

\* lines 145-153: hay, the lower-cased texts of one record
Hay(it, fields) ==
    LET of(f) == IF f \notin DOMAIN it THEN << <<>> >>
                 ELSE IF IsListField(f)
                      THEN [k \in 1..Len(it[f]) |-> Lower(it[f][k])]
                      ELSE <<Lower(it[f])>>
        rps == Get(it, "replies", <<>>)
    IN  Flatten([k \in 1..Len(fields) |-> of(fields[k])])
        \o [k \in 1..Len(rps) |-> Lower(Get(rps[k], "message", <<>>))]

\* lines 141-155: whether filter_items keeps the record
Keeps(it, kw, fields, status) ==
    /\ ~(status # "" /\ Get(it, "status", "") # status)
    /\ \/ kw = <<>>
       \/ \E k \in 1..Len(Hay(it, fields)) : Contains(kw, Hay(it, fields)[k])

filter_items(its, keyword, fields, status) ==
    LET kw == StripText(Lower(keyword))
    IN  SelectSeq(its, LAMBDA it : Keeps(it, kw, fields, status))

\* ------------------------------------------------------------ submission
RECURSIVE MaxId(_)
\* max([fb["id"] for fb in feedback_list])
MaxId(list) ==
    IF Len(list) = 1 THEN list[1].id
    ELSE LET m == MaxId(Tail(list))
         IN  IF list[1].id >= m THEN list[1].id ELSE m

\* an id taken from the length of the list
NewIdByLen(list) == Len(list) + 1

NewId(list) == IF list # <<>> THEN MaxId(list) + 1 ELSE 1

NewFeedback(list, text) ==
    [id |-> NewId(list),
     message |-> mask_pii(Strip(text)),
     created_at |-> utc_now_str,
     updated_at |-> utc_now_str,
     replies |-> <<>>,
     labels |-> <<>>,
     priority |-> "Medium",
     assigned_to |-> "",
     admin_notes |-> "",
     reactions |-> ZeroReactions,
     deleted_at |-> NoTime,
     history |-> <<>>]

\* --------------------------------------------------------------- history
NoOp == [kind |-> "none", id |-> 0, arg |-> "", at |-> NoTime]

\* a write as later claims refer to it: who wrote, what for, on which path
NoSeen == [by |-> "", op |-> NoOp, via |-> "none", read_sha |-> NoSha, sha |-> NoSha]

NoWrite == [by |-> "", op |-> NoOp, via |-> "none", read_sha |-> NoSha, sha |-> NoSha,
            base |-> <<>>, seen |-> NoSeen]

Summary(w) == [by |-> w.by, op |-> w.op, via |-> w.via, read_sha |-> w.read_sha,
               sha |-> w.sha]

FreshG == [base |-> <<>>, op |-> NoOp, reads |-> 0, writes |-> 0,
           st1 |-> 0, st2 |-> 0, latest |-> <<>>, seen |-> NoSeen,
           raw |-> <<>>]

NoQuery == [pc |-> "off", its |-> <<>>, keyword |-> <<>>, fields |-> <<>>,
            status |-> "", out |-> <<>>]

\* ------------------------------------------------------------------ Init
\* a record as an earlier run of the program left it in the document
StoredRecord(id, likes, replies) ==
    [id |-> id, message |-> "old", created_at |-> 0, updated_at |-> 0,
     replies |-> replies, labels |-> <<>>, priority |-> "Medium",
     assigned_to |-> "", admin_notes |-> "",
     reactions |-> [like |-> likes, helpful |-> 0, agree |-> 0],
     deleted_at |-> NoTime, history |-> <<>>]

\* the document the sessions find: none yet, or what earlier runs persisted
\* (record 1 was deleted, record 2 has one like and one reply)
InitDocs ==
    { <<>>,
      <<StoredRecord(2, 1, <<[message |-> "r0", created_at |-> 0]>>)>> }

Init ==
    /\ now = 0
    /\ doc \in InitDocs
    /\ doc_sha = IF doc = <<>> THEN NoSha ELSE 1
    /\ nputs = 0
    /\ pc = [s \in Sessions |-> "idle"]
    /\ items = [s \in Sessions |-> <<>>]
    /\ old_sha = [s \in Sessions |-> NoSha]
    /\ merged_list = [s \in Sessions |-> <<>>]
    /\ latest_sha = [s \in Sessions |-> NoSha]
    /\ ok = [s \in Sessions |-> FALSE]
    /\ g = [s \in Sessions |-> FreshG]
    /\ lastWrite = NoWrite
    /\ retired = IF doc = <<>> THEN {} ELSE {1}
    /\ call = NoQuery

\* --------------------------------------------------------------- actions
Tick ==
    /\ now < MaxTime
    /\ now' = now + 1
    /\ UNCHANGED <<call, doc, doc_sha, nputs, pc, items, old_sha, merged_list, latest_sha,
                   ok, g, lastWrite, retired>>

\* line 185: the script run starts by loading the collection
Load(s) ==
    /\ pc[s] = "idle"
    /\ nputs < MaxPuts
    /\ items' = [items EXCEPT ![s] = load_json_list(doc)]
    /\ old_sha' = [old_sha EXCEPT ![s] = doc_sha]
    /\ g' = [g EXCEPT ![s] = [FreshG EXCEPT !.base = load_json_list(doc)]]
    /\ pc' = [pc EXCEPT ![s] = "loaded"]
    /\ UNCHANGED <<call, now, doc, doc_sha, nputs, merged_list, latest_sha, ok,
                   lastWrite, retired>>

\* the local part of a handler: the working list is changed, the save follows
Mutate(s, list, op) ==
    /\ items' = [items EXCEPT ![s] = list]
    /\ g' = [g EXCEPT ![s].op = op]
    /\ pc' = [pc EXCEPT ![s] = "write1"]
    /\ UNCHANGED <<call, now, doc, doc_sha, nputs, old_sha, merged_list, latest_sha, ok,
                   lastWrite, retired>>

\* the locals of a script run are gone when it ends
DropLocals(s) ==
    /\ items' = [items EXCEPT ![s] = <<>>]
    /\ old_sha' = [old_sha EXCEPT ![s] = NoSha]
    /\ merged_list' = [merged_list EXCEPT ![s] = <<>>]
    /\ latest_sha' = [latest_sha EXCEPT ![s] = NoSha]

\* the script run ends without a save (st.error, st.stop)
EndRun(s) ==
    /\ pc' = [pc EXCEPT ![s] = "idle"]
    /\ DropLocals(s)
    /\ ok' = [ok EXCEPT ![s] = FALSE]
    /\ g' = [g EXCEPT ![s] = FreshG]
    /\ UNCHANGED <<call, now, doc, doc_sha, nputs, lastWrite, retired>>

\* lines 237-265: the feedback form is submitted
SubmitFeedback(s) ==
    /\ pc[s] = "loaded"
    /\ \E text \in FormTexts[s] :
          IF Strip(text) # ""
          THEN Mutate(s, Append(items[s], NewFeedback(items[s], text)),
                      [kind |-> "submit", id |-> NewId(items[s]), arg |-> text,
                       at |-> utc_now_str])
          ELSE EndRun(s)

\* lines 282-298: one of the three reaction buttons of a shown record
React(s) ==
    /\ pc[s] = "loaded"
    /\ \E i \in 1..Len(items[s]), c \in Counters :
          LET fb == items[s][i]
              fb2 == [fb EXCEPT !.reactions[c] = Get(fb.reactions, c, 0) + 1,
                                !.updated_at = utc_now_str]
          IN  Mutate(s, [items[s] EXCEPT ![i] = fb2],
                     [kind |-> c, id |-> fb.id, arg |-> "", at |-> utc_now_str])

\* lines 439-444, admin "Save Feedback": the form's values replace the record's
Edit(s) ==
    /\ pc[s] = "loaded"
    /\ \E i \in 1..Len(items[s]) :
          LET fb == items[s][i]
              fb2 == [fb EXCEPT !.message = Strip(EditForm[s].message),
                                !.labels = EditForm[s].labels,
                                !.priority = EditForm[s].priority,
                                !.updated_at = utc_now_str]
          IN  Mutate(s, [items[s] EXCEPT ![i] = fb2],
                     [kind |-> "edit", id |-> fb.id,
                      arg |-> Strip(EditForm[s].message), at |-> utc_now_str])

\* admin panel: a reply {message, created_at} is appended to the record
Reply(s) ==
    /\ pc[s] = "loaded"
    /\ \E i \in 1..Len(items[s]) :
          LET fb == items[s][i]
              rp == [message |-> ReplyText[s], created_at |-> utc_now_str]
              fb2 == [fb EXCEPT !.replies = Append(@, rp),
                                !.updated_at = utc_now_str]
          IN  Mutate(s, [items[s] EXCEPT ![i] = fb2],
                     [kind |-> "reply", id |-> fb.id, arg |-> ReplyText[s],
                      at |-> utc_now_str])

\* remove(id): [x for x in list if x["id"] != k]
Without(list, k) == SelectSeq(list, LAMBDA x : x.id # k)

\* admin panel: the record is filtered out of the working list and the list saved
Delete(s) ==
    /\ pc[s] = "loaded"
    /\ \E i \in 1..Len(items[s]) :
          Mutate(s, Without(items[s], items[s][i].id),
                 [kind |-> "delete", id |-> items[s][i].id, arg |-> "",
                  at |-> utc_now_str])

\* update_file_content: what the store does with a write and what it answers
Put(s, list, sha_sent, via, status) ==
    /\ \/ /\ status = StoreStatus(sha_sent, doc_sha)
          /\ IsSuccess(status) => nputs < MaxPuts
       \/ status = FailureStatus
    /\ IF IsSuccess(status)
       THEN /\ doc' = list
            /\ doc_sha' = doc_sha + 1
            /\ nputs' = nputs + 1
            /\ lastWrite' = [by |-> s, op |-> g[s].op, via |-> via,
                             read_sha |-> old_sha[s], sha |-> doc_sha + 1,
                             base |-> g[s].base, seen |-> g[s].seen]
            /\ retired' = retired \cup
                             (Ids(IF doc = Garbled THEN <<>> ELSE doc) \ Ids(list))
       ELSE UNCHANGED <<doc, doc_sha, nputs, lastWrite, retired>>

\* where optimistic_save goes after the answer to its first write
AfterFirst(status) ==
    IF IsSuccess(status) THEN "done"
    ELSE IF IsConflict(status) THEN "reread" ELSE "done"

\* a save that merges again whenever the retry conflicts
AfterRetryLoop(status) == IF IsConflict(status) THEN "reread" ELSE "done"

\* where optimistic_save goes after the answer to its retry
AfterRetry(status) == "done"

\* optimistic_save has returned: what the caller still sees is the result
Return(s, result, g2) ==
    /\ pc' = [pc EXCEPT ![s] = "done"]
    /\ ok' = [ok EXCEPT ![s] = result]
    /\ g' = [g EXCEPT ![s] = [g2 EXCEPT !.base = <<>>, !.op = NoOp, !.latest = <<>>,
                                        !.seen = NoSeen, !.raw = <<>>]]
    /\ DropLocals(s)

\* lines 75-79 and 109: the first attempt
FirstWrite(s) ==
    /\ pc[s] = "write1"
    /\ \E status \in {200, 201, 409, 422, FailureStatus} :
          LET g2 == [g[s] EXCEPT !.writes = @ + 1, !.st1 = status]
          IN  /\ Put(s, items[s], old_sha[s], "first", status)
              /\ IF AfterFirst(status) = "done"
                 THEN Return(s, IsSuccess(status), g2)
                 ELSE /\ pc' = [pc EXCEPT ![s] = AfterFirst(status)]
                      /\ g' = [g EXCEPT ![s] = g2]
                      /\ UNCHANGED <<ok, items, old_sha, merged_list, latest_sha>>
    /\ UNCHANGED <<call, now>>

\* lines 80-106: the re-read and the merge
ReRead(s) ==
    /\ pc[s] = "reread"
    /\ \/ /\ latest_sha' = [latest_sha EXCEPT ![s] = doc_sha]
          /\ merged_list' = [merged_list EXCEPT ![s] = Merge(json_loads(doc), items[s])]
          /\ g' = [g EXCEPT ![s].reads = @ + 1, ![s].latest = json_loads(doc),
                            ![s].seen = Summary(lastWrite), ![s].raw = doc]
          /\ pc' = [pc EXCEPT ![s] = "write2"]
          /\ UNCHANGED <<call, now, doc, doc_sha, nputs, items, old_sha, ok, lastWrite,
                         retired>>
       \/ EndRun(s)    \* lines 42-44: the read fails and st.stop() ends the run

\* lines 107-108: the single retry
RetryWrite(s) ==
    /\ pc[s] = "write2"
    /\ \E status \in {200, 201, 409, 422, FailureStatus} :
          LET g2 == [g[s] EXCEPT !.writes = @ + 1, !.st2 = status]
          IN  /\ Put(s, merged_list[s], latest_sha[s], "merge", status)
              /\ IF AfterRetry(status) = "done"
                 THEN Return(s, IsSuccess(status), g2)
                 ELSE /\ pc' = [pc EXCEPT ![s] = AfterRetry(status)]
                      /\ g' = [g EXCEPT ![s] = g2]
                      /\ UNCHANGED <<ok, items, old_sha, merged_list, latest_sha>>
    /\ UNCHANGED <<call, now>>

\* st.rerun(): the script run is over, the next one loads again
Rerun(s) ==
    /\ pc[s] = "done"
    /\ EndRun(s)

Next ==
    \/ Tick
    \/ \E s \in Sessions : Load(s)
    \/ \E s \in Sessions : SubmitFeedback(s)
    \/ \E s \in Sessions : React(s)
    \/ \E s \in Sessions : Edit(s)
    \/ \E s \in Sessions : Reply(s)
    \/ \E s \in Sessions : Delete(s)
    \/ \E s \in Sessions : FirstWrite(s)
    \/ \E s \in Sessions : ReRead(s)
    \/ \E s \in Sessions : RetryWrite(s)
    \/ \E s \in Sessions : Rerun(s)

Spec == Init /\ [][Next]_vars

\* ------------------------------------------------- an undecodable document
\* the document is replaced from outside the program by a text that is not
\* JSON; the store gives it a new version token as for any other write
Garble ==
    /\ doc # Garbled
    /\ nputs < MaxPuts
    /\ doc' = Garbled
    /\ doc_sha' = doc_sha + 1
    /\ nputs' = nputs + 1
    /\ lastWrite' = [NoWrite EXCEPT !.by = "editor", !.via = "hand", !.sha = doc_sha + 1]
    /\ retired' = retired \cup Ids(doc)
    /\ UNCHANGED <<call, now, pc, items, old_sha, merged_list, latest_sha, ok, g>>

NextDecode == Next \/ Garble

SpecDecode == Init /\ [][NextDecode]_vars

\* ------------------------------------------------- the query engine alone
\* records as filter_items may be handed: feedback and tickets, live and
\* soft-deleted, with and without replies
QueryRecords ==
    { [id |-> 1, message |-> m, admin_notes |-> <<>>, labels |-> << <<"u", "i">> >>,
       replies |-> r, created_at |-> 0, updated_at |-> 0, deleted_at |-> d]
        : m \in { <<"H", "i">>, <<"o", "k">> },
          r \in { <<>>, <<[message |-> <<"h", "i", "!">>, created_at |-> 0]>> },
          d \in {NoTime, 0} }
    \cup
    { [id |-> 2, query |-> <<"h", "i">>, status |-> st, admin_notes |-> <<"o", "k">>,
       labels |-> <<>>, replies |-> <<>>, created_at |-> 0, updated_at |-> 0,
       deleted_at |-> d]
        : st \in {"In Process", "Completed"}, d \in {NoTime, 0} }

QueryLists ==
    { <<>> } \cup { <<x>> : x \in QueryRecords }
             \cup { <<x, y>> : x \in QueryRecords, y \in QueryRecords }

QueryKeywords == { <<>>, <<" ", "H", "I", " ">>, <<"u", "i">>, <<"z">> }

QueryFields == { <<"message", "admin_notes", "labels">>,
                 <<"query", "admin_notes", "labels">> }

QueryStatuses == {"", "Completed"}

InitQuery ==
    /\ now = 0
    /\ doc = <<>>
    /\ doc_sha = NoSha
    /\ nputs = 0
    /\ pc = [s \in Sessions |-> "idle"]
    /\ items = [s \in Sessions |-> <<>>]
    /\ old_sha = [s \in Sessions |-> NoSha]
    /\ merged_list = [s \in Sessions |-> <<>>]
    /\ latest_sha = [s \in Sessions |-> NoSha]
    /\ ok = [s \in Sessions |-> FALSE]
    /\ g = [s \in Sessions |-> FreshG]
    /\ lastWrite = NoWrite
    /\ retired = {}
    /\ \E its \in QueryLists, kw \in QueryKeywords, fs \in QueryFields,
          st \in QueryStatuses :
          call = [pc |-> "call", its |-> its, keyword |-> kw, fields |-> fs,
               status |-> st, out |-> <<>>]

\* lines 137-156: filter_items is applied to its arguments
Filter ==
    /\ call.pc = "call"
    /\ call' = [call EXCEPT !.pc = "returned",
                      !.out = filter_items(call.its, call.keyword, call.fields, call.status)]
    /\ UNCHANGED <<now, doc, doc_sha, nputs, pc, items, old_sha, merged_list,
                   latest_sha, ok, g, lastWrite, retired>>

NextQuery == Filter

SpecQuery == InitQuery /\ [][NextQuery]_vars

\* ------------------------------------------------ the other pure functions
\* the store and the sessions at rest while one function is called
AtRest ==
    /\ now = 0
    /\ doc = <<>>
    /\ doc_sha = NoSha
    /\ nputs = 0
    /\ pc = [s \in Sessions |-> "idle"]
    /\ items = [s \in Sessions |-> <<>>]
    /\ old_sha = [s \in Sessions |-> NoSha]
    /\ merged_list = [s \in Sessions |-> <<>>]
    /\ latest_sha = [s \in Sessions |-> NoSha]
    /\ ok = [s \in Sessions |-> FALSE]
    /\ g = [s \in Sessions |-> FreshG]
    /\ lastWrite = NoWrite
    /\ retired = {}

\* timedelta(hours=24), in seconds
Day == 86400

\* datetime.now() carries a fraction of a second that the stored timestamps
\* do not: the sweep's clock counts half seconds, a timestamp t reads as 2 * t
\* line 270: cutoff = datetime.now(timezone.utc) - timedelta(hours=24)
Cutoff(clock) == clock - 2 * Day

\* a sweep that also keeps the record created exactly at the cutoff
RecentOrAtCutoff(x, cutoff) == 2 * parse_utc(x.created_at) >= cutoff

\* line 271: parse_utc(x["created_at"]) > cutoff
Recent(x, cutoff) == 2 * parse_utc(x.created_at) > cutoff

\* line 271: public_feedback = [x for x in feedback_list if ...]
public_feedback(feedback_list, clock) ==
    SelectSeq(feedback_list, LAMBDA x : Recent(x, Cutoff(clock)))

\* the moments the sweep runs at: Day + 1 seconds after 0, and half a second later
SweepClocks == {2 * Day + 2, 2 * Day + 3}

\* loaded records around the cutoff, with and without replies and reactions
SweepRecords ==
    { [id |-> 1, message |-> "old", created_at |-> c, updated_at |-> c,
       replies |-> r, labels |-> <<>>, priority |-> "Medium", assigned_to |-> "",
       admin_notes |-> "", reactions |-> [like |-> k, helpful |-> 0, agree |-> 0],
       deleted_at |-> NoTime, history |-> <<>>]
        : c \in {0, 1, 2, Day + 1},
          r \in { <<>>, <<[message |-> "r0", created_at |-> 2]>> },
          k \in {0, 1} }

SweepLists ==
    { <<>> } \cup { <<x>> : x \in SweepRecords }
             \cup { <<x, y>> : x \in SweepRecords, y \in SweepRecords }

InitRetention ==
    /\ AtRest
    /\ \E its \in SweepLists, c \in SweepClocks :
          call = [pc |-> "call", its |-> its, clock |-> c, out |-> <<>>]

\* lines 270-271: the retention filter is applied to the loaded list
Sweep ==
    /\ call.pc = "call"
    /\ call' = [call EXCEPT !.pc = "returned",
                            !.out = public_feedback(call.its, call.clock)]
    /\ UNCHANGED <<now, doc, doc_sha, nputs, pc, items, old_sha, merged_list,
                   latest_sha, ok, g, lastWrite, retired>>

NextRetention == Sweep

SpecRetention == InitRetention /\ [][NextRetention]_vars

\* ------------------------------------------------------------- pagination
\* a slice index as Python reads it against a list of length n
SliceIndex(i, n) ==
    IF i < 0 THEN (IF n + i < 0 THEN 0 ELSE n + i)
    ELSE IF i > n THEN n ELSE i

\* items[start:end]
Slice(its, start, end) ==
    SubSeq(its, SliceIndex(start, Len(its)) + 1, SliceIndex(end, Len(its)))

\* a has_more that is also true when the list ends exactly at the slice end
MoreOrAtEnd(n, end) == n >= end

\* len(items) > end
More(n, end) == n > end

\* lines 158-160
paginate_items(its, page, size) ==
    LET start == page * size
        end == page * size + size
    IN  [items |-> Slice(its, start, end), has_more |-> More(Len(its), end)]

MaxItems == 12   \* longest list handed to paginate_items
MaxPage == 3     \* last page asked for ("Load more" adds 1 to the page)

\* the callers pass 5; 1 and 2 make more pages of the same lists
PageSizes == {1, 2, 5}

InitPaginate ==
    /\ AtRest
    /\ \E n \in 0..MaxItems, page \in 0..MaxPage, size \in PageSizes :
          call = [pc |-> "call", its |-> [i \in 1..n |-> 100 + i], page |-> page,
                  size |-> size, out |-> <<>>, has_more |-> FALSE]

\* lines 273 and 365: one page of the list is asked for
Paginate ==
    /\ call.pc = "call"
    /\ LET res == paginate_items(call.its, call.page, call.size)
       IN  call' = [call EXCEPT !.pc = "returned", !.out = res.items,
                                !.has_more = res.has_more]
    /\ UNCHANGED <<now, doc, doc_sha, nputs, pc, items, old_sha, merged_list,
                   latest_sha, ok, g, lastWrite, retired>>

NextPaginate == Paginate

SpecPaginate == InitPaginate /\ [][NextPaginate]_vars

\* ---------------------------------------------------------- normalization
\* the fields load_json_list fills in
DefaultedFields == {"replies", "labels", "priority", "assigned_to", "admin_notes",
                    "reactions", "deleted_at", "history", "created_at", "updated_at"}

\* a stored record that has every field, none at its default where it can
FullRaw ==
    [id |-> 1, message |-> "old",
     replies |-> <<[message |-> "r0", created_at |-> 0]>>, labels |-> <<"ui">>,
     priority |-> "High", assigned_to |-> "bob", admin_notes |-> "n",
     reactions |-> [like |-> 2], deleted_at |-> 0,
     history |-> <<[action |-> "edit", at |-> 0]>>,
     created_at |-> 0, updated_at |-> 1]

\* records as older versions of the program or other tools left them: any
\* subset of the filled fields may be missing
RawRecords ==
    { [f \in {"id", "message"} \cup F |-> FullRaw[f]] : F \in SUBSET DefaultedFields }

InitNormalize ==
    /\ AtRest
    /\ \E r \in RawRecords :
          call = [pc |-> "call", raw |-> r, once |-> r, twice |-> r]

\* lines 60-70: a record is loaded for the first time
NormalizeOnce ==
    /\ call.pc = "call"
    /\ call' = [call EXCEPT !.pc = "once", !.once = Normalize(call.raw)]
    /\ UNCHANGED <<now, doc, doc_sha, nputs, pc, items, old_sha, merged_list,
                   latest_sha, ok, g, lastWrite, retired>>

\* lines 60-70: the record, written back as loaded, is loaded again
NormalizeAgain ==
    /\ call.pc = "once"
    /\ call' = [call EXCEPT !.pc = "twice", !.twice = Normalize(call.once)]
    /\ UNCHANGED <<now, doc, doc_sha, nputs, pc, items, old_sha, merged_list,
                   latest_sha, ok, g, lastWrite, retired>>

NextNormalize == Tick \/ NormalizeOnce \/ NormalizeAgain

SpecNormalize == InitNormalize /\ [][NextNormalize]_vars

\* ------------------------------------------------- the merge of one record
\* reactions as a re-read document may hold them: all counters, some, none
ReactionDicts ==
    { [like |-> 2, helpful |-> 1, agree |-> 0], [like |-> 1],
      [helpful |-> 3, agree |-> 1] }

\* the two sides of a merge: the re-read side is not normalized, so it may
\* lack reactions or updated_at
MergeSides ==
    LET core == [id |-> 1, message |-> "old", created_at |-> 0, replies |-> <<>>]
        stamped == {core} \cup {SetField(core, "updated_at", t) : t \in {0, 1}}
    IN  stamped \cup {SetField(x, "reactions", r) : x \in stamped, r \in ReactionDicts}

InitMerge ==
    /\ AtRest
    /\ \E a \in MergeSides, b \in MergeSides :
          call = [pc |-> "call", a |-> a, b |-> b, ab |-> a, ba |-> a]

\* lines 93-105, once with a as the authoritative side and once with b
MergeBothWays ==
    /\ call.pc = "call"
    /\ call' = [call EXCEPT !.pc = "returned",
                            !.ab = MergeRecord(call.a, call.b),
                            !.ba = MergeRecord(call.b, call.a)]
    /\ UNCHANGED <<now, doc, doc_sha, nputs, pc, items, old_sha, merged_list,
                   latest_sha, ok, g, lastWrite, retired>>

NextMerge == MergeBothWays

SpecMerge == InitMerge /\ [][NextMerge]_vars

\* ================================================================ claims
Has(list, k) == IndexOf(list, k) # 0

Rec(list, k) == list[IndexOf(list, k)]

Count(sq, x) == Cardinality({i \in 1..Len(sq) : sq[i] = x})

\* the stored document is what session B wrote through its merge-retry after
\* conflicting with the first-attempt write of another session that had
\* loaded the same document, both having done one operation of the given
\* kinds on the same record
Raced(kindA, kindB) ==
    /\ lastWrite.via = "merge"
    /\ lastWrite.op.kind = kindB
    /\ lastWrite.seen.via = "first"
    /\ lastWrite.seen.op.kind = kindA
    /\ lastWrite.seen.by # lastWrite.by
    /\ lastWrite.seen.op.id = lastWrite.op.id
    /\ lastWrite.seen.read_sha = lastWrite.read_sha
    /\ lastWrite.sha = lastWrite.seen.sha + 1

\* C1: a call of optimistic_save writes at most twice and re-reads at most
\* once; when both writes are answered with a conflict it has returned false
\* after exactly two writes and one re-read.
C1_AtMostOneRetry ==
    \A s \in Sessions :
        /\ g[s].writes <= 2
        /\ g[s].reads <= 1
        /\ (IsConflict(g[s].st1) /\ IsConflict(g[s].st2)) =>
              /\ pc[s] = "done"
              /\ ok[s] = FALSE
              /\ g[s].writes = 2
              /\ g[s].reads = 1

C1_Witness ==
    \E s \in Sessions :
        pc[s] = "done" /\ IsConflict(g[s].st1) /\ IsConflict(g[s].st2) /\ ~ok[s]

\* C2: no two records of the stored collection have the same id.
C2_UniqueIds ==
    \A i, j \in 1..Len(doc) : doc[i].id = doc[j].id => i = j

C2_Witness ==
    /\ lastWrite.via = "merge"
    /\ lastWrite.op.kind = "submit"
    /\ lastWrite.seen.op.kind = "delete"
    /\ Len(doc) >= 2

\* C3: after A's like and B's helpful on the same base record, B saving
\* through the merge-retry, the stored record has like = base.like + 1 and
\* helpful = base.helpful + 1.
C3_IndependentIncrements ==
    Raced("like", "helpful") =>
        LET x == Rec(doc, lastWrite.op.id)
            b == Rec(lastWrite.base, lastWrite.op.id)
        IN  /\ x.reactions.like = b.reactions.like + 1
            /\ x.reactions.helpful = b.reactions.helpful + 1

\* C4: after A's reply r1 and B's reply r2 to the same base record, B saving
\* through the merge-retry, the stored record's replies contain r1 and r2.
C4_RepliesNotLost ==
    Raced("reply", "reply") =>
        LET x == Rec(doc, lastWrite.op.id)
            r1 == [message |-> lastWrite.seen.op.arg, created_at |-> lastWrite.seen.op.at]
            r2 == [message |-> lastWrite.op.arg, created_at |-> lastWrite.op.at]
        IN  /\ Has(doc, lastWrite.op.id)
            /\ Count(x.replies, r1) >= 1
            /\ Count(x.replies, r2) >= 1

C4_Witness == Raced("reply", "reply")

ScalarFields == {"message", "priority", "labels", "assigned_to", "admin_notes",
                 "updated_at"}

\* C5: for a record on both sides of a merge, every scalar field of the
\* merged record is that of the working side when its updated_at is strictly
\* later, and that of the authoritative side otherwise.
C5_ScalarLastWriterWins ==
    \A s \in Sessions :
        pc[s] = "write2" =>
            \A i \in 1..Len(g[s].latest), j \in 1..Len(items[s]) :
                LET a == g[s].latest[i]
                    b == items[s][j]
                    winner == IF b.updated_at > a.updated_at THEN b ELSE a
                IN  a.id = b.id =>
                       /\ Has(merged_list[s], a.id)
                       /\ \A f \in ScalarFields :
                             Rec(merged_list[s], a.id)[f] = winner[f]

C5_Witness ==
    \E s \in Sessions :
        /\ pc[s] = "write2"
        /\ \E i \in 1..Len(g[s].latest), j \in 1..Len(items[s]) :
              /\ g[s].latest[i].id = items[s][j].id
              /\ items[s][j].updated_at > g[s].latest[i].updated_at
              /\ items[s][j].message # g[s].latest[i].message
              /\ Rec(merged_list[s], items[s][j].id).message = items[s][j].message

\* C6: from one stored document to the next, the updated_at of a record that
\* is in both does not decrease.
C6_UpdatedAtMonotone ==
    [][\A i \in 1..Len(doc), j \in 1..Len(doc') :
          doc[i].id = doc'[j].id => doc'[j].updated_at >= doc[i].updated_at]_vars

\* a merge-retry was stored that touched a record the other side had
\* stamped later than the writer did
C6_Witness ==
    /\ lastWrite.via = "merge"
    /\ Has(doc, lastWrite.op.id)
    /\ lastWrite.op.kind \in {"edit", "reply", "like"}
    /\ Rec(doc, lastWrite.op.id).updated_at > lastWrite.op.at

\* C7: a first write answered with a failure that is not a conflict makes
\* optimistic_save return false with no re-read and no second write, the
\* stored document and its token being what they were.
C7_FailureIsFinal ==
    [][\A s \in Sessions :
          (pc[s] = "write1" /\ g'[s].st1 = FailureStatus) =>
              /\ pc'[s] = "done"
              /\ ok'[s] = FALSE
              /\ g'[s].reads = 0
              /\ g'[s].writes = 1
              /\ doc' = doc
              /\ doc_sha' = doc_sha]_vars

C7_Witness ==
    \E s \in Sessions :
        /\ pc[s] = "done"
        /\ g[s].st1 = FailureStatus
        /\ ~ok[s]
        /\ g[s].reads = 0
        /\ g[s].writes = 1

\* the largest id of a non-empty list
Largest(list) == CHOOSE m \in Ids(list) : \A k \in Ids(list) : k <= m

\* C8: a non-empty submission appends exactly one record to the list as
\* loaded, its id being the largest loaded id plus 1, or 1 for an empty list,
\* and leaves the loaded records as they were.
C8_SubmissionAppendsOne ==
    \A s \in Sessions :
        (pc[s] = "write1" /\ g[s].op.kind = "submit") =>
            LET base == g[s].base
                n == Len(base)
            IN  /\ Len(items[s]) = n + 1
                /\ SubSeq(items[s], 1, n) = base
                /\ items[s][n + 1].id = (IF n = 0 THEN 1 ELSE Largest(base) + 1)
                /\ g[s].op.id = items[s][n + 1].id

C8_Witness ==
    \E s \in Sessions :
        /\ pc[s] = "write1"
        /\ g[s].op.kind = "submit"
        /\ Len(g[s].base) = 2
        /\ Len(items[s]) = 3

\* C9: a submitted record that is stored never carries an id of a record
\* that has left the store.
C9_IdNeverReused ==
    (lastWrite.op.kind = "submit" /\ lastWrite.via = "first") =>
        lastWrite.op.id \notin retired

\* C10: every record filter_items returns has deleted_at unset.
C10_NoSoftDeletedReturned ==
    call.pc = "returned" =>
        \A i \in 1..Len(call.out) : call.out[i].deleted_at = NoTime

\* C11: the retention sweep returns every record created later than 24 hours
\* before the sweep's clock as often as the list holds it, unchanged, and no
\* record created at or before that moment.
C11_SweepKeepsExactlyRecent ==
    call.pc = "returned" =>
        /\ \A i \in 1..Len(call.its) :
              LET x == call.its[i]
              IN  Count(call.out, x) =
                     (IF 2 * x.created_at <= call.clock - 2 * Day
                      THEN 0 ELSE Count(call.its, x))
        /\ \A j \in 1..Len(call.out) : Count(call.its, call.out[j]) >= 1

\* one record created exactly 24 hours before the sweep is dropped, one
\* younger record with a reply and a like is kept
C11_Witness ==
    /\ call.pc = "returned"
    /\ Len(call.its) = 2
    /\ \E i \in 1..2 : 2 * call.its[i].created_at = call.clock - 2 * Day
    /\ Len(call.out) = 1
    /\ call.out[1].replies # <<>>
    /\ call.out[1].reactions.like = 1

\* C12: paginate_items returns the items at offsets page*size up to but not
\* including page*size+size, fewer at the end of the list, and has_more is
\* true exactly when the list is longer than page*size+size; 12 items with
\* size 5 give 5 items and has_more on page 0, 2 items and no more on page 2.
C12_PaginateSlice ==
    call.pc = "returned" =>
        LET n == Len(call.its)
            start == call.page * call.size
            end == call.page * call.size + call.size
        IN  /\ Len(call.out) = (IF n <= start THEN 0
                                ELSE IF n >= end THEN call.size ELSE n - start)
            /\ \A k \in 1..Len(call.out) : call.out[k] = call.its[start + k]
            /\ call.has_more <=> (n > end)
            /\ (n = 12 /\ call.size = 5 /\ call.page = 0) =>
                  (Len(call.out) = 5 /\ call.has_more)
            /\ (n = 12 /\ call.size = 5 /\ call.page = 2) =>
                  (Len(call.out) = 2 /\ ~call.has_more)

\* the last page of 12 items in pages of 5
C12_Witness ==
    /\ call.pc = "returned"
    /\ Len(call.its) = 12
    /\ call.size = 5
    /\ call.page = 2
    /\ call.out = <<111, 112>>
    /\ ~call.has_more

\* C13: normalizing a normalized record leaves every field as it is, whatever
\* fields the record had at first and whenever the second normalization runs.
C13_NormalizeIdempotent ==
    call.pc = "twice" => call.twice = call.once

\* a record without timestamps, normalized at second 0 and again at second 1
C13_Witness ==
    /\ call.pc = "twice"
    /\ "created_at" \notin DOMAIN call.raw
    /\ "updated_at" \notin DOMAIN call.raw
    /\ "reactions" \notin DOMAIN call.raw
    /\ call.once.created_at = 0
    /\ now = 1
    /\ call.twice.updated_at = 0

\* C14: loading an undecodable document gives the empty list and the
\* document's version token; a re-read that finds an undecodable document
\* takes the authoritative list as empty, the merged list is the working
\* list, and that is what the retry stores.
C14_DecodeFailureIsEmpty ==
    /\ [][\A s \in Sessions :
             (pc[s] = "idle" /\ pc'[s] = "loaded" /\ doc = Garbled) =>
                 (items'[s] = <<>> /\ old_sha'[s] = doc_sha)]_vars
    /\ [](\A s \in Sessions :
             (pc[s] = "write2" /\ g[s].raw = Garbled) =>
                 (g[s].latest = <<>> /\ merged_list[s] = items[s]))
    /\ [][\A s \in Sessions :
             (pc[s] = "write2" /\ g[s].raw = Garbled /\ pc'[s] = "done" /\ ok'[s]) =>
                 doc' = items[s]]_vars

\* a merge-retry was stored whose re-read had found the undecodable document
C14_Witness ==
    /\ lastWrite.via = "merge"
    /\ lastWrite.seen.via = "hand"
    /\ doc # <<>>
    /\ doc # Garbled

\* C15: the merged list built after a conflict has exactly the ids of the
\* re-read list and of the working list; a working record whose id the
\* re-read list lacks is in it unchanged, and so is a re-read record whose
\* id the working list lacks.
C15_MergeIdsAreUnion ==
    \A s \in Sessions :
        pc[s] = "write2" =>
            /\ Ids(merged_list[s]) = Ids(g[s].latest) \cup Ids(items[s])
            /\ \A j \in 1..Len(items[s]) :
                  ~Has(g[s].latest, items[s][j].id) =>
                      Count(merged_list[s], items[s][j]) = 1
            /\ \A i \in 1..Len(g[s].latest) :
                  ~Has(items[s], g[s].latest[i].id) =>
                      Count(merged_list[s], g[s].latest[i]) = 1

\* a merge with a record only the working list has and one only the
\* re-read list has
C15_Witness ==
    \E s \in Sessions :
        /\ pc[s] = "write2"
        /\ \E j \in 1..Len(items[s]) : ~Has(g[s].latest, items[s][j].id)
        /\ \E i \in 1..Len(g[s].latest) : ~Has(items[s], g[s].latest[i].id)

\* the value of counter c on one side of a merge, 0 when it is missing
CounterOf(x, c) ==
    IF "reactions" \in DOMAIN x /\ c \in DOMAIN x.reactions THEN x.reactions[c] ELSE 0

\* C16: each merged counter is the sum of the two sides' values of that
\* counter, a missing counter counting as 0, and merging with the sides
\* swapped gives the same counters.
C16_CountersSumBothWays ==
    call.pc = "returned" =>
        /\ \A c \in Counters :
              call.ab.reactions[c] = CounterOf(call.a, c) + CounterOf(call.b, c)
        /\ call.ba.reactions = call.ab.reactions

\* one side has no like counter and the sides differ in updated_at: both
\* orders take the later side as the base and sum the same counters
C16_Witness ==
    /\ call.pc = "returned"
    /\ "reactions" \in DOMAIN call.a
    /\ "like" \notin DOMAIN call.a.reactions
    /\ "reactions" \in DOMAIN call.b
    /\ "like" \in DOMAIN call.b.reactions
    /\ call.b.reactions.like = 2
    /\ "updated_at" \in DOMAIN call.a
    /\ "updated_at" \in DOMAIN call.b
    /\ call.a.updated_at # call.b.updated_at
    /\ call.ab.reactions = [like |-> 2, helpful |-> 4, agree |-> 1]
    /\ call.ab.updated_at = call.ba.updated_at

\* C17: when two sessions loaded the same collection and each submitted one
\* record, the first saving on its first attempt and the second through the
\* merge-retry, the stored collection holds both submissions as two records,
\* each with its own text.
C17_NoSubmissionLost ==
    (/\ lastWrite.via = "merge"
     /\ lastWrite.op.kind = "submit"
     /\ lastWrite.seen.via = "first"
     /\ lastWrite.seen.op.kind = "submit"
     /\ lastWrite.seen.by # lastWrite.by
     /\ lastWrite.seen.read_sha = lastWrite.read_sha
     /\ lastWrite.sha = lastWrite.seen.sha + 1) =>
        \E i, j \in 1..Len(doc) :
            /\ i # j
            /\ doc[i].message = mask_pii(Strip(lastWrite.seen.op.arg))
            /\ doc[j].message = mask_pii(Strip(lastWrite.op.arg))

\* C18: after a first-attempt save that removed record X, a save stored by
\* another session that had loaded the collection before it and only
\* reacted to, replied to or edited a record does not hold a record with
\* X's id.
C18_DeletedNotResurrected ==
    (/\ lastWrite.seen.op.kind = "delete"
     /\ lastWrite.seen.via = "first"
     /\ lastWrite.seen.by # lastWrite.by
     /\ lastWrite.read_sha < lastWrite.seen.sha
     /\ lastWrite.op.kind \in Counters \cup {"reply", "edit"}) =>
        ~Has(doc, lastWrite.seen.op.id)

\* C19: the collection stored by a save that removed record X from its
\* working list, on the first attempt or through the merge-retry, does not
\* hold a record with X's id.
C19_SavedDeletionIsStored ==
    lastWrite.op.kind = "delete" => ~Has(doc, lastWrite.op.id)

====
